---- MODULE Spec2Model ----
(***************************************************************************)
(* spyderGPT ingestion engine: WorkerBase.ingest (the coordinator), the    *)
(* three workers' _gather, DocumentLoader.load / process, and the          *)
(* dispatcher loop of process_args / url_direct_download.                  *)
(*                                                                         *)
(* The vector store (Chroma), the HTTP server, the file parsers and the    *)
(* text splitter are external: the store is a sequence of chunk records    *)
(* plus the on-disk artifacts _does_vectorstore_exist looks at, a fetch    *)
(* answers ok / http error / transport error nondeterministically, and a   *)
(* file's content is whether it parses and how many chunks the splitter    *)
(* cuts it into.                                                           *)
(***************************************************************************)
EXTENDS Integers, Sequences, FiniteSets, TLC

(* ------------------------------ bounds -------------------------------- *)
MaxChunks == 1          \* chunks the splitter yields for one document
MaxIndexFiles == 3      \* index artifact files initially on disk
MaxLinks == 3           \* --link arguments of one invocation

(* --------------------------- program constants ------------------------ *)
MinIndexFiles == 3

LOADER_MAPPING == {".csv", ".doc", ".docx", ".eml", ".pdf", ".ppt", ".pptx", ".txt"}

OperationsEnum == {"web", "local", "url"}

MsgLocalOk == "Files imported successfully"
MsgLocalNone == "No files were imported locally"
MsgWebOk == "Automated download and import was successful"
MsgWebNone == "No files were imported from the web"
MsgUrlOk == "Automated download and import was successful"
MsgUrlNone == "A file was not imported from an URL"
MsgError == "An error occurred"

(* ------------------------------ environment --------------------------- *)
Range(s) == {s[i] : i \in 1..Len(s)}

\* a file's content: does the format loader parse it, and how many chunks
\* does the splitter cut its text into (0: empty text)
Corrupt == [parses |-> FALSE, chunks |-> 0]
Text(n) == [parses |-> TRUE, chunks |-> n]
Contents == {Corrupt, Text(0), Text(MaxChunks)}

FileA == [stem |-> "a", ext |-> ".txt"]
FileB == [stem |-> "b", ext |-> ".txt"]
LocalNames == {FileA, FileB}

\* settings.sourcedocuments
SourceDocuments == "source_documents"

\* names tempfile.TemporaryDirectory may pick
TmpNames == {"tmpA", "tmpB"}
NoTmp == "none"

\* direct-download URLs: the URL splits at "/" into its parts, the last
\* part being the file the server holds
FileC == [stem |-> "c", ext |-> ".pdf"]
Url1 == <<"https:", "", "host", FileA>>
Url2 == <<"https:", "", "host", FileC>>
FileD == [stem |-> "d", ext |-> ".txt"]
Url3 == <<"https:", "", "host", FileD>>
FileE == [stem |-> "e", ext |-> ".pdf"]
Url4 == <<"https:", "", "host", FileE>>
UrlList == <<Url1, Url2, Url3, Url4>>
Urls == Range(UrlList)
\* what the server holds at a URL
RemoteContent(u) == Text(MaxChunks)

\* crawler settings and what the crawled site serves: each listing row has
\* a short title, a relative url and the content-type of the linked file
CrawlRoot == "https://site"
Path1 == "/p1"
Path2 == "/p2"
Row1 == [ShortTitle |-> "No 1", url |-> "/f1", ctype |-> "application/pdf", content |-> Text(MaxChunks)]
Row2 == [ShortTitle |-> "No 2", url |-> "/f2", ctype |-> "application/pdf", content |-> Corrupt]
Row3 == [ShortTitle |-> "No 3", url |-> "/f3", ctype |-> "text/plain", content |-> Text(MaxChunks)]
\* a listing whose table gives two rows the same number
Path3 == "/p3"
Row4 == [ShortTitle |-> "No 4", url |-> "/f4", ctype |-> "application/pdf", content |-> Text(MaxChunks)]
Row5 == [ShortTitle |-> "No 4", url |-> "/f5", ctype |-> "application/pdf", content |-> Text(0)]
\* the rows of the table of a listing page, in table order
Listing(path) ==
    CASE path = Path1 -> <<Row1, Row2>>
      [] path = Path2 -> <<Row3>>
      [] path = Path3 -> <<Row4, Row5>>
CrawlerSettings ==
    {[root |-> "", paths |-> <<Path1>>], [root |-> CrawlRoot, paths |-> <<>>],
     [root |-> CrawlRoot, paths |-> <<Path1>>], [root |-> CrawlRoot, paths |-> <<Path2>>],
     [root |-> CrawlRoot, paths |-> <<Path1, Path2>>],
     [root |-> CrawlRoot, paths |-> <<Path3>>]}
DefaultCrawler == [root |-> CrawlRoot, paths |-> <<Path1>>]

FetchResults == {"ok", "http_error", "transport_error"}

(* ------------------------------ helpers ------------------------------- *)
EmptyDir == [n \in {} |-> Corrupt]

\* the path string a file of directory dir is known by (glob result,
\* Document.metadata["source"])
PathOf(dir, name) == [dir |-> dir, name |-> name]

(* ------------------------------- state -------------------------------- *)
VARIABLES
    srcDir,       \* the local source directory: [exists, files]
    artifacts,    \* persistence directory: the artifacts on disk
    persisted,    \* persistence directory: the chunk records on disk
    invocation,   \* which invocation of the program runs or ran last
    workers,      \* args["<worker>"] of the running invocation
    wi,           \* process_args: index of the worker being handled
    links,        \* args["--link"]
    li,           \* url_direct_download: index of the link being handled
    crawler,      \* settings.crawler
    success,      \* url_direct_download: success
    result,       \* process_args: result
    validation,   \* what validate_args printed for the running invocation
    passes,       \* the ingest calls of the running invocation, as ended
    documents,    \* DocumentLoader.documents (class attribute)
    pc,           \* position of the running invocation
    kind,         \* kind of the worker whose ingest is running
    url,          \* UrlWorker.url
    existed,      \* ingest: what _does_vectorstore_exist returned
    db,           \* ingest: records held by the open store client
    ignored,      \* _gather: ignored_files
    tmpDir,       \* _gather: the TemporaryDirectory, NoTmp when none
    tmpFiles,     \* files in the TemporaryDirectory
    pathIdx,      \* WebWorker._gather: index of the crawl path
    tasks,        \* _download: state of every submitted future
    toLoad,       \* load: filtered_files the pool has not yielded yet
    texts,        \* loader.processed_texts
    calls,        \* store calls of the running ingest, in order
    parsed,       \* files the pool has parsed for the running ingest
    staged,       \* file names the running ingest wrote to its directory
    outcome,      \* how the last ingest ended
    tmpMade,      \* TemporaryDirectory names the running ingest created
    cur,          \* snapshot taken when the running ingest started
    prev,         \* snapshot of the ingest before it
    srcChanged    \* the source directory was edited since that ingest

envVars == <<srcDir, artifacts, persisted>>
dispVars == <<invocation, workers, wi, links, li, crawler, success, result,
              validation, passes>>
runVars == <<kind, url, existed, db, ignored, tmpDir, tmpFiles, pathIdx, tasks,
             toLoad, texts, calls, parsed, staged, outcome, tmpMade, cur, prev,
             srcChanged>>
vars == <<srcDir, artifacts, persisted, invocation, workers, wi, links, li,
          crawler, success, result, validation, passes, documents, pc, kind,
          url, existed, db,
          ignored, tmpDir, tmpFiles, pathIdx, tasks, toLoad, texts, calls,
          parsed, staged, outcome, tmpMade, cur, prev, srcChanged>>

(* --------------------------- pure functions --------------------------- *)
SrcDirs ==
    {[exists |-> FALSE, files |-> EmptyDir]} \cup
    {[exists |-> TRUE, files |-> f] : f \in UNION {[S -> Contents] : S \in SUBSET LocalNames}}

ArtifactStates ==
    {a \in [indexDir : BOOLEAN, collections : BOOLEAN, embeddings : BOOLEAN,
            indexFiles : 0..MaxIndexFiles] : ~a.indexDir => a.indexFiles = 0}

\* utils.get_files(index_path, [v_bin, v_pickle]): the index files found
GetFiles(art) == IF art.indexDir THEN art.indexFiles ELSE 0

\* _does_vectorstore_exist without the test of the embeddings file
DoesVectorstoreExistIgnoresEmbeddings(art) ==
    /\ art.indexDir
    /\ art.collections
    /\ GetFiles(art) >= MinIndexFiles

\* WorkerBase._does_vectorstore_exist
DoesVectorstoreExist(art) ==
    /\ art.indexDir
    /\ art.collections
    /\ art.embeddings
    /\ GetFiles(art) >= MinIndexFiles

\* what db.persist() leaves on disk: Chroma writes the two parquet files
\* and the index directory with its .bin and .pkl files
PersistedArtifacts(art) ==
    [indexDir |-> TRUE, collections |-> TRUE, embeddings |-> TRUE,
     indexFiles |-> IF GetFiles(art) > MinIndexFiles + 1 THEN GetFiles(art)
                    ELSE MinIndexFiles + 1]

NoArtifacts ==
    [indexDir |-> FALSE, collections |-> FALSE, embeddings |-> FALSE, indexFiles |-> 0]

TypicalSrcDir == [exists |-> TRUE, files |-> [n \in {FileA} |-> Text(MaxChunks)]]

\* [metadata["source"] for metadata in collection["metadatas"]] if collection
IgnoredFiles(isOpen, records) ==
    IF isOpen THEN {records[i].source : i \in 1..Len(records)} ELSE {}

\* DocumentLoader.load: the glob over every extension of LOADER_MAPPING
AllFiles(dir, files) ==
    {PathOf(dir, n) : n \in {m \in DOMAIN files : m.ext \in LOADER_MAPPING}}

\* a load that hands every discovered file to the pool
FilteredFilesKeepsAll(dir, files, ign) == AllFiles(dir, files)

\* DocumentLoader.load: filtered_files
FilteredFiles(dir, files, ign) ==
    {p \in AllFiles(dir, files) : p \notin ign}

\* the Document a format loader returns for a file
Document(path, content) == [source |-> path, chunks |-> content.chunks]

\* text_splitter.split_documents: every document's chunks, in order, each
\* carrying the document's metadata
RECURSIVE SplitDocuments(_)
SplitDocuments(docs) ==
    IF docs = <<>> THEN <<>>
    ELSE [i \in 1..Head(docs).chunks |-> [source |-> Head(docs).source, idx |-> i]]
         \o SplitDocuments(Tail(docs))

\* _get_vectorstore without the from_documents branch
GetVectorstoreAlwaysOpens(docs, onDisk) == [call |-> "open", records |-> onDisk]

\* WorkerBase._get_vectorstore(documents): Chroma.from_documents when
\* documents is non-empty, else the client of the persisted store
GetVectorstore(docs, onDisk) ==
    IF docs # <<>> THEN [call |-> "create", records |-> docs]
    ELSE [call |-> "open", records |-> onDisk]

\* UrlWorker._download: the file name is the last part of the url
UrlFileName(u) == u[Len(u)]

\* mimetypes.guess_extension
GuessExtension(ctype) ==
    CASE ctype = "application/pdf" -> ".pdf"
      [] ctype = "text/plain" -> ".txt"
      [] OTHER -> "None"

\* WebWorker._download_single_file: f"{title}{file_extension}"
WebFileName(row) == [stem |-> row.ShortTitle, ext |-> GuessExtension(row.ctype)]

WriteFile(files, name, content) ==
    [n \in DOMAIN files \cup {name} |-> IF n = name THEN content ELSE files[n]]

\* validate_args: what it prints; it returns None in every case
UsageInvalidWorker == "Invalid <worker> args"
UsageLinkRequired == "The '--link' option is required when using 'url' worker"
ValidateArgs(ws, ls) ==
    IF Range(ws) \ {"local", "web", "url"} # {} THEN UsageInvalidWorker
    ELSE IF "url" \in Range(ws) /\ ls = <<>> THEN UsageLinkRequired
    ELSE "none"

\* MetaEnum.__contains__: cls(item) does not raise ValueError
Contains(item) == item \in OperationsEnum

\* Operation.perform_operation: the processor the key maps to
PerformOperation(key) ==
    IF Contains(key)
    THEN CASE key = "web" -> "process_from_web"
           [] key = "local" -> "process_from_local"
           [] key = "url" -> "url_direct_download"
    ELSE "InvalidOperationKeyError"

\* an ingest that hands every unknown argument to the local processor
IngestDefaultsToLocal(arg) ==
    IF arg \in OperationsEnum THEN PerformOperation(arg) ELSE "process_from_local"

\* __main__.ingest: OperationsEnum(arg) raises ValueError for a value that
\* is no member, else perform_operation is called with the member
Ingest(arg) ==
    IF arg \in OperationsEnum THEN PerformOperation(arg) ELSE "ValueError"

\* a source check that takes every configured directory as present
SourceExistsAlways(dir) == TRUE

\* LocalWorker._gather: sourcedocuments.exists()
SourceExists(dir) == dir.exists

\* a configuration check that looks at crawler.root only
CrawlerIncompleteRootOnly(cr) == cr.root = ""

\* WebWorker._gather: not crawler.root or not crawler.paths
CrawlerIncomplete(cr) == cr.root = "" \/ cr.paths = <<>>

\* the command lines the model runs: the workers, in argument order
WorkerArgs ==
    {<<"local">>, <<"web">>, <<"url">>, <<"local", "local">>, <<"local", "url">>,
     <<"web", "local">>, <<"ftp">>, <<"ftp", "local">>, <<"local", "ftp">>}
\* the --link lists the model runs: the first n URLs, and one URL twice
LinkArgs == {SubSeq(UrlList, 1, n) : n \in 0..MaxLinks} \cup {<<Url1, Url1>>}

NoRun == [kind |-> "none", existed |-> FALSE, before |-> <<>>,
          invocation |-> "none", outcome |-> "none"]

NoUrl == <<>>
IsError(o) == o \in {"FileNotFoundError", "ValueError"}

\* a scratch directory that is removed on the normal return only
TmpKeptOnRaise(dir, raised) == IF raised THEN dir ELSE NoTmp

\* tempfile.TemporaryDirectory.__exit__: the directory is removed whether
\* the with-block returned or raised
TmpAfterExit(dir, raised) == NoTmp

(* -------------------------------- Init -------------------------------- *)
Init ==
    /\ srcDir \in SrcDirs
    /\ artifacts \in ArtifactStates
    /\ (srcDir = TypicalSrcDir \/ artifacts \in {NoArtifacts, PersistedArtifacts(NoArtifacts)})
    /\ persisted = <<>>
    /\ invocation = "none"
    /\ workers = <<>>
    /\ wi = 0
    /\ links = <<>>
    /\ li = 0
    /\ crawler = DefaultCrawler
    /\ success = TRUE
    /\ result = <<>>
    /\ validation = "none"
    /\ passes = <<>>
    /\ documents = <<>>
    /\ pc = "idle"
    /\ kind = "none"
    /\ url = NoUrl
    /\ existed = FALSE
    /\ db = <<>>
    /\ ignored = {}
    /\ tmpDir = NoTmp
    /\ tmpFiles = EmptyDir
    /\ pathIdx = 0
    /\ tasks = <<>>
    /\ toLoad = {}
    /\ texts = <<>>
    /\ calls = <<>>
    /\ parsed = <<>>
    /\ staged = {}
    /\ outcome = "none"
    /\ tmpMade = {}
    /\ cur = NoRun
    /\ prev = NoRun
    /\ srcChanged = FALSE

\* the worker object and its loader are dropped when ingest has returned
ResetRun ==
    /\ kind' = "none"
    /\ url' = NoUrl
    /\ existed' = FALSE
    /\ db' = <<>>
    /\ ignored' = {}
    /\ pathIdx' = 0
    /\ tasks' = <<>>
    /\ toLoad' = {}
    /\ texts' = <<>>
    /\ calls' = <<>>
    /\ parsed' = <<>>
    /\ staged' = {}
    /\ outcome' = "none"
    /\ tmpMade' = {}
    /\ cur' = NoRun
    /\ prev' = [cur EXCEPT !.outcome = outcome]
    /\ srcChanged' = FALSE
    /\ UNCHANGED <<tmpDir, tmpFiles>>

(* ------------------------ environment actions ------------------------- *)
\* between two invocations of a command line that reads the source
\* directory and takes no --link, the user edits the source directory
EnvChangeSource ==
    /\ pc = "idle"
    /\ invocation = "first"
    /\ "local" \in Range(workers)
    /\ "url" \notin Range(workers)
    /\ ~srcChanged
    /\ srcDir' \in SrcDirs \ {srcDir}
    /\ srcChanged' = TRUE
    /\ UNCHANGED <<artifacts, persisted, dispVars, documents, pc, kind, url,
                   existed, db, ignored, tmpDir, tmpFiles, pathIdx, tasks,
                   toLoad, texts, calls, parsed, staged, outcome, tmpMade, cur, prev>>

(* ----------------------------- dispatcher ----------------------------- *)
\* __main__: a new process; process_args reads the arguments and settings
StartInvocation ==
    /\ pc = "idle"
    /\ invocation = "none"
    /\ \E ws \in WorkerArgs, ls \in LinkArgs, cr \in CrawlerSettings :
          /\ "url" \notin Range(ws) => ls = <<>>
          /\ "web" \notin Range(ws) => cr = DefaultCrawler
          /\ ("local" \notin Range(ws) \/ "url" \in Range(ws)) => srcDir = TypicalSrcDir
          /\ workers' = ws
          /\ links' = ls
          /\ crawler' = cr
          /\ validation' = ValidateArgs(ws, ls)
    /\ invocation' = "first"
    /\ wi' = 1
    /\ li' = 0
    /\ success' = TRUE
    /\ result' = <<>>
    /\ passes' = <<>>
    /\ documents' = <<>>
    /\ pc' = "dispatch"
    /\ UNCHANGED <<envVars, runVars>>

\* the same command line is run again: a new process
RerunInvocation ==
    /\ pc = "idle"
    /\ invocation = "first"
    /\ invocation' = "rerun"
    /\ validation' = ValidateArgs(workers, links)
    /\ wi' = 1
    /\ li' = 0
    /\ success' = TRUE
    /\ result' = <<>>
    /\ passes' = <<>>
    /\ documents' = <<>>
    /\ pc' = "dispatch"
    /\ UNCHANGED <<envVars, workers, links, crawler, runVars>>

\* process_args: the next worker is local: process_from_local
ProcessFromLocal ==
    /\ pc = "dispatch"
    /\ wi <= Len(workers)
    /\ Ingest(workers[wi]) = "process_from_local"
    /\ kind' = "local"
    /\ pc' = "ingest"
    /\ UNCHANGED <<envVars, dispVars, documents, url, existed, db, ignored,
                   tmpDir, tmpFiles, pathIdx, tasks, toLoad, texts, calls,
                   parsed, staged, outcome, tmpMade, cur, prev, srcChanged>>

\* process_args: the next worker is web: process_from_web
ProcessFromWeb ==
    /\ pc = "dispatch"
    /\ wi <= Len(workers)
    /\ Ingest(workers[wi]) = "process_from_web"
    /\ kind' = "web"
    /\ pc' = "ingest"
    /\ UNCHANGED <<envVars, dispVars, documents, url, existed, db, ignored,
                   tmpDir, tmpFiles, pathIdx, tasks, toLoad, texts, calls,
                   parsed, staged, outcome, tmpMade, cur, prev, srcChanged>>

\* process_args: the next worker is url: url_direct_download starts
UrlDirectDownload ==
    /\ pc = "dispatch"
    /\ wi <= Len(workers)
    /\ Ingest(workers[wi]) = "url_direct_download"
    /\ success' = TRUE
    /\ li' = 1
    /\ pc' = "urlloop"
    /\ UNCHANGED <<envVars, invocation, workers, wi, links, crawler, result,
                   validation, passes, documents, runVars>>

\* url_direct_download: UrlWorker(link, settings) for the next link
UrlNextLink ==
    /\ pc = "urlloop"
    /\ li <= Len(links)
    /\ kind' = "url"
    /\ url' = links[li]
    /\ pc' = "ingest"
    /\ UNCHANGED <<envVars, dispVars, documents, existed, db, ignored,
                   tmpDir, tmpFiles, pathIdx, tasks, toLoad, texts, calls,
                   parsed, staged, outcome, tmpMade, cur, prev, srcChanged>>

\* url_direct_download: the loop is over, the status message is returned
UrlLoopDone ==
    /\ pc = "urlloop"
    /\ li > Len(links)
    /\ result' = Append(result, <<"url", IF success THEN MsgUrlOk ELSE MsgUrlNone>>)
    /\ wi' = wi + 1
    /\ pc' = "dispatch"
    /\ UNCHANGED <<envVars, invocation, workers, links, li, crawler, success,
                   validation, passes, documents, runVars>>

\* process_args: ingest(arg) raises ValueError for an argument that is no
\* operation; the except clause outside the loop makes the error message
IngestRaises ==
    /\ pc = "dispatch"
    /\ wi <= Len(workers)
    /\ Ingest(workers[wi]) = "ValueError"
    /\ result' = <<<<"error", MsgError>>>>
    /\ pc' = "idle"
    /\ UNCHANGED <<envVars, invocation, workers, wi, links, li, crawler,
                   success, validation, passes, documents, runVars>>

\* process_args: every worker was handled, the joined result is returned
ProcessArgsDone ==
    /\ pc = "dispatch"
    /\ wi > Len(workers)
    /\ pc' = "idle"
    /\ UNCHANGED <<envVars, dispVars, documents, runVars>>

\* a success flag that keeps only what the last ingest returned
UrlSuccessLastOnly(s, r) == r

\* url_direct_download: success &= importer.ingest()
UrlSuccess(s, r) == s /\ r

\* the ingest call that has just ended: the worker argument it served, its
\* downloads and how it ended
PassRecord ==
    [wi |-> wi, kind |-> kind, url |-> url,
     fetch |-> [i \in 1..Len(tasks) |-> tasks[i].status],
     staged |-> staged, outcome |-> outcome]

\* ingest returned to process_from_local / process_from_web
ReturnToProcessor ==
    /\ pc = "returned"
    /\ kind \in {"local", "web"}
    /\ ~IsError(outcome)
    /\ result' = Append(result,
          <<kind, IF kind = "local"
                  THEN (IF outcome = "DONE" THEN MsgLocalOk ELSE MsgLocalNone)
                  ELSE (IF outcome = "DONE" THEN MsgWebOk ELSE MsgWebNone)>>)
    /\ wi' = wi + 1
    /\ passes' = Append(passes, PassRecord)
    /\ pc' = "dispatch"
    /\ ResetRun
    /\ UNCHANGED <<envVars, invocation, workers, links, li, crawler, success,
                   validation, documents>>

\* ingest returned to url_direct_download: success &= importer.ingest()
ReturnToUrlLoop ==
    /\ pc = "returned"
    /\ kind = "url"
    /\ ~IsError(outcome)
    /\ success' = UrlSuccess(success, outcome = "DONE")
    /\ li' = li + 1
    /\ passes' = Append(passes, PassRecord)
    /\ pc' = "urlloop"
    /\ ResetRun
    /\ UNCHANGED <<envVars, invocation, workers, wi, links, crawler, result,
                   validation, documents>>

\* ingest raised FileNotFoundError or ValueError: process_args catches it
\* outside its loop, result is still the empty list
ReturnError ==
    /\ pc = "returned"
    /\ IsError(outcome)
    /\ result' = <<<<"error", MsgError>>>>
    /\ passes' = Append(passes, PassRecord)
    /\ pc' = "idle"
    /\ ResetRun
    /\ UNCHANGED <<envVars, invocation, workers, wi, links, li, crawler,
                   success, validation, documents>>

(* ------------------------- WorkerBase.ingest -------------------------- *)
\* the directory the loader of the running worker reads
LoadDir == IF kind = "local" THEN SourceDocuments ELSE tmpDir
LoadFiles == IF kind = "local" THEN srcDir.files ELSE tmpFiles

\* an exception leaves _gather and ingest; a with-block it passes removes
\* its TemporaryDirectory
Raise(exc) ==
    /\ outcome' = exc
    /\ pc' = "returned"
    /\ tmpDir' = TmpAfterExit(tmpDir, TRUE)
    /\ tmpFiles' = EmptyDir

\* ingest: _does_vectorstore_exist, and in the append branch
\* db = self._get_vectorstore(); collection = db.get()
StoreCheck ==
    /\ pc = "ingest"
    /\ existed' = DoesVectorstoreExist(artifacts)
    /\ db' = IF existed' THEN GetVectorstore(<<>>, persisted).records ELSE <<>>
    /\ calls' = IF existed' THEN <<GetVectorstore(<<>>, persisted).call, "get">> ELSE <<>>
    /\ cur' = [kind |-> kind, existed |-> existed', before |-> persisted,
               invocation |-> invocation, outcome |-> "none"]
    /\ pc' = "gather"
    /\ UNCHANGED <<envVars, dispVars, documents, kind, url, ignored, tmpDir,
                   tmpFiles, pathIdx, tasks, toLoad, texts, parsed, staged, outcome,
                   tmpMade, prev, srcChanged>>

\* LocalWorker._gather: sourcedocuments does not exist
GatherLocalMissing ==
    /\ pc = "gather"
    /\ kind = "local"
    /\ ~SourceExists(srcDir)
    /\ Raise("FileNotFoundError")
    /\ UNCHANGED <<envVars, dispVars, documents, kind, url, existed, db,
                   ignored, pathIdx, tasks, toLoad, texts, calls, parsed, staged,
                   tmpMade, cur, prev, srcChanged>>

\* LocalWorker._gather up to the pool of loader.load
GatherLocal ==
    /\ pc = "gather"
    /\ kind = "local"
    /\ SourceExists(srcDir)
    /\ ignored' = IgnoredFiles(existed, db)
    /\ toLoad' = FilteredFiles(SourceDocuments, srcDir.files, ignored')
    /\ pc' = "load"
    /\ UNCHANGED <<envVars, dispVars, documents, kind, url, existed, db,
                   tmpDir, tmpFiles, pathIdx, tasks, texts, calls, parsed, staged,
                   outcome, tmpMade, cur, prev, srcChanged>>

\* UrlWorker._gather up to the submit of _download
GatherUrl ==
    /\ pc = "gather"
    /\ kind = "url"
    /\ ignored' = IgnoredFiles(existed, db)
    /\ tmpDir' \in TmpNames
    /\ tmpMade' = tmpMade \cup {tmpDir'}
    /\ tmpFiles' = EmptyDir
    /\ tasks' = <<[file |-> UrlFileName(url), content |-> RemoteContent(url),
                   status |-> "pending"]>>
    /\ pc' = "download"
    /\ UNCHANGED <<envVars, dispVars, documents, kind, url, existed, db,
                   pathIdx, toLoad, texts, calls, parsed, staged, outcome, cur, prev, srcChanged>>

\* WebWorker._gather: crawler.root or crawler.paths is empty
GatherWebInvalid ==
    /\ pc = "gather"
    /\ kind = "web"
    /\ CrawlerIncomplete(crawler)
    /\ Raise("ValueError")
    /\ UNCHANGED <<envVars, dispVars, documents, kind, url, existed, db,
                   ignored, pathIdx, tasks, toLoad, texts, calls, parsed, staged,
                   tmpMade, cur, prev, srcChanged>>

\* WebWorker._gather up to the loop over crawler.paths
GatherWeb ==
    /\ pc = "gather"
    /\ kind = "web"
    /\ ~CrawlerIncomplete(crawler)
    /\ ignored' = IgnoredFiles(existed, db)
    /\ tmpDir' \in TmpNames
    /\ tmpMade' = tmpMade \cup {tmpDir'}
    /\ tmpFiles' = EmptyDir
    /\ pathIdx' = 1
    /\ pc' = "listing"
    /\ UNCHANGED <<envVars, dispVars, documents, kind, url, existed, db,
                   tasks, toLoad, texts, calls, parsed, staged, outcome, cur, prev, srcChanged>>

\* WebWorker._gather: _parse_html_table raises for the listing page
ListingFails ==
    /\ pc = "listing"
    /\ pathIdx \in 1..Len(crawler.paths)
    /\ Raise("ValueError")
    /\ UNCHANGED <<envVars, dispVars, documents, kind, url, existed, db,
                   ignored, pathIdx, tasks, toLoad, texts, calls, parsed, staged,
                   tmpMade, cur, prev, srcChanged>>

\* WebWorker._gather: the listing is read, _download submits one task per
\* row of the table
ListingRead ==
    /\ pc = "listing"
    /\ pathIdx \in 1..Len(crawler.paths)
    /\ tasks' = [i \in 1..Len(Listing(crawler.paths[pathIdx])) |->
                   LET row == Listing(crawler.paths[pathIdx])[i]
                   IN  [file |-> WebFileName(row), content |-> row.content,
                        status |-> "pending"]]
    /\ pc' = "download"
    /\ UNCHANGED <<envVars, dispVars, documents, kind, url, existed, db,
                   ignored, tmpDir, tmpFiles, pathIdx, toLoad, texts, calls,
                   parsed, staged, outcome, tmpMade, cur, prev, srcChanged>>

\* open(file_path, "wb") and f.write(r.content) of task i: the file holds
\* the task's content, unless another task of the same _download wrote the
\* same path at the same time; the two unsynchronised writers leave the
\* content of either, or a mixture no loader parses
WrittenContents(ts, i) ==
    IF \E j \in 1..Len(ts) : j # i /\ ts[j].file = ts[i].file /\ ts[j].status = "ok"
    THEN {ts[i].content, Corrupt}
         \cup {ts[j].content : j \in {k \in 1..Len(ts) : k # i /\ ts[k].file = ts[i].file
                                                         /\ ts[k].status = "ok"}}
    ELSE {ts[i].content}

\* _download_single_file of one submitted task runs to its end: the file
\* is written on a 2xx answer, a message is printed on another status, a
\* transport error leaves ValueError in the future
FetchTask ==
    /\ pc = "download"
    /\ \E i \in 1..Len(tasks), r \in FetchResults :
          /\ tasks[i].status = "pending"
          /\ tasks' = [tasks EXCEPT ![i].status = r]
          /\ \E c \in WrittenContents(tasks, i) :
                tmpFiles' = IF r = "ok"
                            THEN WriteFile(tmpFiles, tasks[i].file, c)
                            ELSE tmpFiles
          /\ staged' = IF r = "ok" THEN staged \cup {tasks[i].file} ELSE staged
    /\ UNCHANGED <<envVars, dispVars, documents, pc, kind, url, existed, db,
                   ignored, tmpDir, pathIdx, toLoad, texts, calls, parsed,
                   outcome, tmpMade, cur, prev, srcChanged>>

\* futures that raise for every failed fetch, a non-2xx answer included
FailedTasksAnyFailure(ts) ==
    {i \in 1..Len(ts) : ts[i].status \in {"transport_error", "http_error"}}

\* the futures whose result() raises
FailedTasks(ts) == {i \in 1..Len(ts) : ts[i].status = "transport_error"}

\* a _download that lets the ValueError of a failed task out while other
\* submitted tasks are still running
DownloadRaisesEarly ==
    /\ pc = "download"
    /\ FailedTasks(tasks) # {}
    /\ Raise("ValueError")
    /\ UNCHANGED <<envVars, dispVars, documents, kind, url, existed, db,
                   ignored, pathIdx, tasks, toLoad, texts, calls, parsed, staged,
                   tmpMade, cur, prev, srcChanged>>

\* _download: future.result() re-raises the ValueError of a task once the
\* executor has joined its tasks
DownloadRaises ==
    /\ pc = "download"
    /\ \A i \in 1..Len(tasks) : tasks[i].status # "pending"
    /\ FailedTasks(tasks) # {}
    /\ Raise("ValueError")
    /\ UNCHANGED <<envVars, dispVars, documents, kind, url, existed, db,
                   ignored, pathIdx, tasks, toLoad, texts, calls, parsed, staged,
                   tmpMade, cur, prev, srcChanged>>

\* a _download that returns only when every task fetched its file, and has
\* no way out when a task ended with a non-2xx answer
DownloadReturnsNeedsAllOk ==
    /\ pc = "download"
    /\ \A i \in 1..Len(tasks) : tasks[i].status = "ok"
    /\ toLoad' = FilteredFiles(tmpDir, tmpFiles, ignored)
    /\ pc' = "load"
    /\ UNCHANGED <<envVars, dispVars, documents, kind, url, existed, db,
                   ignored, tmpDir, tmpFiles, pathIdx, tasks, texts, calls,
                   parsed, staged, outcome, tmpMade, cur, prev, srcChanged>>

\* _download returns, loader.load globs and filters the directory
DownloadReturns ==
    /\ pc = "download"
    /\ \A i \in 1..Len(tasks) : tasks[i].status # "pending"
    /\ FailedTasks(tasks) = {}
    /\ toLoad' = FilteredFiles(tmpDir, tmpFiles, ignored)
    /\ pc' = "load"
    /\ UNCHANGED <<envVars, dispVars, documents, kind, url, existed, db,
                   ignored, tmpDir, tmpFiles, pathIdx, tasks, texts, calls,
                   parsed, staged, outcome, tmpMade, cur, prev, srcChanged>>

(* ------------------------- DocumentLoader.load ------------------------ *)
\* a load that keeps only the document the pool yielded last
ParseOkOverwrites ==
    /\ pc = "load"
    /\ \E p \in toLoad :
          /\ LoadFiles[p.name].parses
          /\ documents' = <<Document(p, LoadFiles[p.name])>>
          /\ parsed' = Append(parsed, [source |-> p, parses |-> TRUE,
                                        chunks |-> LoadFiles[p.name].chunks])
          /\ toLoad' = toLoad \ {p}
    /\ UNCHANGED <<envVars, dispVars, pc, kind, url, existed, db, ignored,
                   tmpDir, tmpFiles, pathIdx, tasks, texts, calls, outcome,
                   tmpMade, staged, cur, prev, srcChanged>>

\* the pool yields the document of one file: self.documents.append(doc)
ParseOk ==
    /\ pc = "load"
    /\ \E p \in toLoad :
          /\ LoadFiles[p.name].parses
          /\ documents' = Append(documents, Document(p, LoadFiles[p.name]))
          /\ parsed' = Append(parsed, [source |-> p, parses |-> TRUE,
                                        chunks |-> LoadFiles[p.name].chunks])
          /\ toLoad' = toLoad \ {p}
    /\ UNCHANGED <<envVars, dispVars, pc, kind, url, existed, db, ignored,
                   tmpDir, tmpFiles, pathIdx, tasks, texts, calls, outcome,
                   tmpMade, staged, cur, prev, srcChanged>>

\* a load that skips the file whose parse failed and goes on
ParseFailsSkipsFile ==
    /\ pc = "load"
    /\ \E p \in toLoad :
          /\ ~LoadFiles[p.name].parses
          /\ parsed' = Append(parsed, [source |-> p, parses |-> FALSE, chunks |-> 0])
          /\ toLoad' = toLoad \ {p}
    /\ UNCHANGED <<envVars, dispVars, documents, pc, kind, url, existed, db,
                   ignored, tmpDir, tmpFiles, pathIdx, tasks, texts, calls,
                   outcome, tmpMade, staged, cur, prev, srcChanged>>

\* the pool yields the ValueError of _load_single_document for one file
ParseFails ==
    /\ pc = "load"
    /\ \E p \in toLoad :
          /\ ~LoadFiles[p.name].parses
          /\ parsed' = Append(parsed, [source |-> p, parses |-> FALSE, chunks |-> 0])
    /\ Raise("ValueError")
    /\ UNCHANGED <<envVars, dispVars, documents, kind, url, existed, db,
                   ignored, pathIdx, tasks, toLoad, texts, calls, tmpMade, staged,
                   cur, prev, srcChanged>>

(* ------------------ DocumentLoader.process and after ------------------ *)
\* an ingest that swallows NoNewDocumentsLoadedError and goes on to persist
NoNewDocumentsFallsThrough ==
    /\ outcome' = "none"
    /\ pc' = "persist"
    /\ tmpDir' = TmpAfterExit(tmpDir, TRUE)
    /\ tmpFiles' = EmptyDir

\* ingest catches NoNewDocumentsLoadedError and returns False
NoNewDocuments ==
    /\ outcome' = "NO_OP"
    /\ pc' = "returned"
    /\ tmpDir' = TmpAfterExit(tmpDir, TRUE)
    /\ tmpFiles' = EmptyDir

\* process: self.documents is empty
ProcessNoDocuments ==
    /\ pc = "load"
    /\ toLoad = {}
    /\ documents = <<>>
    /\ NoNewDocuments
    /\ UNCHANGED <<envVars, dispVars, documents, kind, url, existed, db,
                   ignored, pathIdx, tasks, toLoad, texts, calls, parsed, staged,
                   tmpMade, cur, prev, srcChanged>>

\* process splits the documents, _gather finds processed_texts empty
ProcessNoTexts ==
    /\ pc = "load"
    /\ toLoad = {}
    /\ documents # <<>>
    /\ SplitDocuments(documents) = <<>>
    /\ texts' = SplitDocuments(documents)
    /\ NoNewDocuments
    /\ UNCHANGED <<envVars, dispVars, documents, kind, url, existed, db,
                   ignored, pathIdx, tasks, toLoad, calls, parsed, staged, tmpMade,
                   cur, prev, srcChanged>>

\* WebWorker._gather: chunks were loaded, the loop goes to the next path
ProcessNextPath ==
    /\ pc = "load"
    /\ toLoad = {}
    /\ documents # <<>>
    /\ SplitDocuments(documents) # <<>>
    /\ kind = "web"
    /\ pathIdx < Len(crawler.paths)
    /\ texts' = SplitDocuments(documents)
    /\ pathIdx' = pathIdx + 1
    /\ pc' = "listing"
    /\ UNCHANGED <<envVars, dispVars, documents, kind, url, existed, db,
                   ignored, tmpDir, tmpFiles, tasks, toLoad, calls, parsed, staged,
                   outcome, tmpMade, cur, prev, srcChanged>>

\* _gather returns loader.processed_texts
GatherReturns ==
    /\ pc = "load"
    /\ toLoad = {}
    /\ documents # <<>>
    /\ SplitDocuments(documents) # <<>>
    /\ kind = "web" => pathIdx >= Len(crawler.paths)
    /\ texts' = SplitDocuments(documents)
    /\ tmpDir' = TmpAfterExit(tmpDir, FALSE)
    /\ tmpFiles' = EmptyDir
    /\ pc' = "commit"
    /\ UNCHANGED <<envVars, dispVars, documents, kind, url, existed, db,
                   ignored, pathIdx, tasks, toLoad, calls, parsed, staged, outcome,
                   tmpMade, cur, prev, srcChanged>>

\* an append branch that replaces the records of the store by the new chunks
AddDocumentsReplaces ==
    /\ pc = "commit"
    /\ existed
    /\ db' = texts
    /\ calls' = Append(calls, "add")
    /\ pc' = "persist"
    /\ UNCHANGED <<envVars, dispVars, documents, kind, url, existed, ignored,
                   tmpDir, tmpFiles, pathIdx, tasks, toLoad, texts, parsed, staged,
                   outcome, tmpMade, cur, prev, srcChanged>>

\* ingest, append branch: db.add_documents(texts)
AddDocuments ==
    /\ pc = "commit"
    /\ existed
    /\ db' = db \o texts
    /\ calls' = Append(calls, "add")
    /\ pc' = "persist"
    /\ UNCHANGED <<envVars, dispVars, documents, kind, url, existed, ignored,
                   tmpDir, tmpFiles, pathIdx, tasks, toLoad, texts, parsed, staged,
                   outcome, tmpMade, cur, prev, srcChanged>>

\* ingest, create branch: db = self._create_vectorstore(texts)
CreateVectorstore ==
    /\ pc = "commit"
    /\ ~existed
    /\ db' = GetVectorstore(texts, persisted).records
    /\ calls' = Append(calls, GetVectorstore(texts, persisted).call)
    /\ pc' = "persist"
    /\ UNCHANGED <<envVars, dispVars, documents, kind, url, existed, ignored,
                   tmpDir, tmpFiles, pathIdx, tasks, toLoad, texts, parsed, staged,
                   outcome, tmpMade, cur, prev, srcChanged>>

\* ingest: db.persist(); return True
Persist ==
    /\ pc = "persist"
    /\ persisted' = db
    /\ artifacts' = PersistedArtifacts(artifacts)
    /\ calls' = Append(calls, "persist")
    /\ outcome' = "DONE"
    /\ pc' = "returned"
    /\ UNCHANGED <<srcDir, dispVars, documents, kind, url, existed, db,
                   ignored, tmpDir, tmpFiles, pathIdx, tasks, toLoad, texts,
                   parsed, staged, tmpMade, cur, prev, srcChanged>>

(* ------------------------------- Next --------------------------------- *)
Next ==
    \/ EnvChangeSource
    \/ StartInvocation
    \/ RerunInvocation
    \/ ProcessFromLocal
    \/ ProcessFromWeb
    \/ UrlDirectDownload
    \/ UrlNextLink
    \/ UrlLoopDone
    \/ IngestRaises
    \/ ProcessArgsDone
    \/ ReturnToProcessor
    \/ ReturnToUrlLoop
    \/ ReturnError
    \/ StoreCheck
    \/ GatherLocalMissing
    \/ GatherLocal
    \/ GatherUrl
    \/ GatherWebInvalid
    \/ GatherWeb
    \/ ListingFails
    \/ ListingRead
    \/ FetchTask
    \/ DownloadRaises
    \/ DownloadReturns
    \/ ParseOk
    \/ ParseFails
    \/ ProcessNoDocuments
    \/ ProcessNoTexts
    \/ ProcessNextPath
    \/ GatherReturns
    \/ AddDocuments
    \/ CreateVectorstore
    \/ Persist

Spec == Init /\ [][Next]_vars

\* the steps of a running invocation: everything but the start of an
\* invocation and the edits of the source directory between two of them
ProgramStep ==
    \/ ProcessFromLocal
    \/ ProcessFromWeb
    \/ UrlDirectDownload
    \/ UrlNextLink
    \/ UrlLoopDone
    \/ IngestRaises
    \/ ProcessArgsDone
    \/ ReturnToProcessor
    \/ ReturnToUrlLoop
    \/ ReturnError
    \/ StoreCheck
    \/ GatherLocalMissing
    \/ GatherLocal
    \/ GatherUrl
    \/ GatherWebInvalid
    \/ GatherWeb
    \/ ListingFails
    \/ ListingRead
    \/ FetchTask
    \/ DownloadRaises
    \/ DownloadReturns
    \/ ParseOk
    \/ ParseFails
    \/ ProcessNoDocuments
    \/ ProcessNoTexts
    \/ ProcessNextPath
    \/ GatherReturns
    \/ AddDocuments
    \/ CreateVectorstore
    \/ Persist

\* the interpreter runs the main thread while it can take a step, and every
\* submitted fetch task and parse task ends: while the invocation has a step
\* to take, one is taken
FairSpec == Spec /\ WF_vars(ProgramStep)

(* ============================== properties ============================ *)
CommitCalls == {"add", "create"}
StoreWrites == {"add", "create", "persist"}
Sources(records) == {records[i].source : i \in 1..Len(records)}

\* C1: a local ingestion run a second time against the store the first
\* run created, with the source directory unchanged in between, ends
\* NO_OP and leaves the chunk count of the store as the first run left it.
C1_ReingestIsNoOp ==
    (/\ pc = "returned"
     /\ cur.kind = "local"
     /\ prev.kind = "local"
     /\ ~prev.existed
     /\ prev.before = <<>>
     /\ prev.outcome = "DONE"
     /\ ~srcChanged)
    => (outcome = "NO_OP" /\ Len(persisted) = Len(cur.before))

\* C2: a run that ends without an error and in which no parsed document
\* yields a chunk (nothing was discovered, or only empty documents) ends
\* NO_OP and has made no add, create or persist call.
C2_NothingNewIsNoOp ==
    (/\ pc = "returned"
     /\ ~IsError(outcome)
     /\ \A i \in 1..Len(parsed) : parsed[i].chunks = 0)
    => (/\ outcome = "NO_OP"
        /\ \A i \in 1..Len(calls) : calls[i] \notin StoreWrites)

\* C3: in every state of a run the store has received at most one add or
\* create call and at most one persist call, and a persist call comes
\* after the add or create call of the same run.
C3_AtMostOneCommitOnePersist ==
    /\ Cardinality({i \in 1..Len(calls) : calls[i] \in CommitCalls}) <= 1
    /\ Cardinality({i \in 1..Len(calls) : calls[i] = "persist"}) <= 1
    /\ \A i \in 1..Len(calls) :
          calls[i] = "persist" => \E j \in 1..(i - 1) : calls[j] \in CommitCalls

C3_Witness ==
    /\ pc = "returned"
    /\ outcome = "DONE"
    /\ calls = <<"open", "get", "add", "persist">>

\* C4: a run whose gather returned chunks appends them with add to the
\* opened store when the store existed (no create), creates the store from
\* exactly these chunks when it was absent (no add), then persists once
\* and ends DONE.
C4_CommitThenPersistOnce ==
    [][/\ pc = "commit" =>
            /\ texts # <<>>
            /\ calls = (IF cur.existed THEN <<"open", "get">> ELSE <<>>)
            /\ calls' = Append(calls, IF cur.existed THEN "add" ELSE "create")
            /\ db' = (IF cur.existed THEN cur.before ELSE <<>>) \o texts
            /\ pc' = "persist"
       /\ pc = "persist" =>
            /\ calls' = Append(calls, "persist")
            /\ persisted' = db
            /\ outcome' = "DONE"
            /\ pc' = "returned"]_vars

C4_Witness ==
    /\ pc = "returned"
    /\ outcome = "DONE"
    /\ cur.existed
    /\ cur.before # <<>>
    /\ Len(persisted) > Len(cur.before)

\* C5: with an existing store, no chunk a run produces has a source that
\* is already in the metadata of the store.
C5_ChunksOnlyFromNewFiles ==
    (pc \in {"commit", "persist"} /\ cur.existed)
    => \A i \in 1..Len(texts) : texts[i].source \notin Sources(cur.before)

\* C6: a pass commits only chunks of documents it discovered and parsed
\* itself, whatever passes ran before it in the same process.
C6_PassCommitsOwnDocuments ==
    pc = "persist"
    => \A i \in 1..Len(texts) :
          \E j \in 1..Len(parsed) : parsed[j].source = texts[i].source

\* C7: a direct-URL or crawl ingestion run again in a new process, every
\* file it downloads having been committed from a scratch directory by an
\* earlier run, parses no file, ends NO_OP and leaves the store as it was.
C7_RemoteRerunIsNoOp ==
    (/\ pc = "returned"
     /\ cur.kind \in {"url", "web"}
     /\ cur.invocation = "rerun"
     /\ wi = 1
     /\ li <= 1
     /\ ~IsError(outcome)
     /\ staged # {}
     /\ \A n \in staged :
           \E j \in 1..Len(cur.before) :
              /\ cur.before[j].source.name = n
              /\ cur.before[j].source.dir \in TmpNames)
    => (parsed = <<>> /\ outcome = "NO_OP" /\ persisted = cur.before)

\* C8: during a run the store counts as existing exactly when the index
\* directory, the collections file and the embeddings file are there and
\* at least three index files are found; otherwise the commit is a create.
C8_ExistsIffAllFour ==
    pc \in {"gather", "listing", "download", "load", "commit", "persist"}
    => /\ existed <=> (/\ artifacts.indexDir
                       /\ artifacts.collections
                       /\ artifacts.embeddings
                       /\ artifacts.indexFiles >= MinIndexFiles)
       /\ pc = "persist" =>
            calls[Len(calls)] = (IF existed THEN "add" ELSE "create")

C8_Witness ==
    /\ pc = "persist"
    /\ ~existed
    /\ artifacts.indexDir
    /\ artifacts.collections
    /\ ~artifacts.embeddings
    /\ artifacts.indexFiles >= MinIndexFiles
    /\ calls = <<"create">>

\* C9: a scratch directory exists only while the gather step of a url or
\* web run is between its creation and its return or raise.
C9_ScratchRemoved ==
    tmpDir # NoTmp
    => (kind \in {"url", "web"} /\ pc \in {"listing", "download", "load"})

C9_Witness ==
    /\ pc = "returned"
    /\ outcome = "ValueError"
    /\ tmpMade # {}
    /\ staged # {}
    /\ tmpDir = NoTmp

\* C10 as stated: whatever the fetches of a download step answered, the
\* step goes on to the load of the staged files and the run does not end
\* in an error there.
C10_FetchFailureNeverEndsRun ==
    [][(pc = "download" /\ pc' # "download")
       => (pc' = "load" /\ ~IsError(outcome'))]_vars

\* C10 amended: a non-2xx answer is skipped, the run goes on and the files
\* the other tasks staged are handed to the loader; a transport error ends
\* the run with ValueError once every task has finished, and nothing is
\* loaded or written to the store.
C10_OnlyTransportErrorEndsRun ==
    [][(pc = "download" /\ pc' # "download")
       => /\ \A i \in 1..Len(tasks) : tasks[i].status # "pending"
          /\ IF \E i \in 1..Len(tasks) : tasks[i].status = "transport_error"
             THEN /\ pc' = "returned"
                  /\ outcome' = "ValueError"
                  /\ documents' = documents
                  /\ calls' = calls
                  /\ persisted' = persisted
             ELSE /\ pc' = "load"
                  /\ outcome' = "none"
                  /\ \A i \in 1..Len(tasks) :
                        (/\ tasks[i].status = "ok"
                         /\ tasks[i].file.ext \in LOADER_MAPPING
                         /\ PathOf(tmpDir, tasks[i].file) \notin ignored)
                        => PathOf(tmpDir, tasks[i].file) \in toLoad']_vars

C10_Witness ==
    /\ pc = "load"
    /\ \E i \in 1..Len(tasks) : tasks[i].status = "http_error"
    /\ \E i \in 1..Len(tasks) :
          tasks[i].status = "ok" /\ PathOf(tmpDir, tasks[i].file) \in toLoad

AfterInvocation == pc = "idle" /\ invocation # "none"
ErrorReport == <<<<"error", MsgError>>>>
PersistedNames == {persisted[i].source.name : i \in 1..Len(persisted)}

\* C11: an invocation of the url worker with three different links, one
\* of which (in any position) is answered with a non-2xx status and the
\* other two with 200, ends without an error report, has staged and
\* committed the files of the two answered links, and reports the degraded
\* message, not the success message.
C11_PartialFetchIsDegraded ==
    (/\ AfterInvocation
     /\ workers = <<"url">>
     /\ Len(links) = 3
     /\ Cardinality(Range(links)) = 3
     /\ Len(passes) = 3
     /\ \E k \in 1..3 :
           /\ passes[k].fetch = <<"http_error">>
           /\ \A j \in (1..3) \ {k} : passes[j].fetch = <<"ok">>)
    => (/\ result = <<<<"url", MsgUrlNone>>>>
        /\ \A j \in 1..3 :
              passes[j].fetch = <<"ok">>
              => (/\ UrlFileName(links[j]) \in passes[j].staged
                  /\ UrlFileName(links[j]) \in PersistedNames))

\* C12: when an invocation of the url worker is over, every link of the
\* list has had its ingest pass, and a pass that did not end DONE has
\* degraded the aggregate message.
C12_EveryLinkGetsItsPass ==
    (AfterInvocation /\ workers = <<"url">>)
    => (/\ Len(passes) = Len(links)
        /\ (\E k \in 1..Len(passes) : passes[k].outcome # "DONE")
              => result = <<<<"url", MsgUrlNone>>>>)

\* C13: when an invocation that requested only known workers is over,
\* every requested local or web worker has had its ingestion run, whatever
\* error another requested worker ended in.
C13_ErrorDoesNotStopOtherSources ==
    (AfterInvocation /\ Range(workers) \subseteq OperationsEnum)
    => \A i \in 1..Len(workers) :
          workers[i] \in {"local", "web"}
          => \E k \in 1..Len(passes) : passes[k].wi = i

\* C14: the report process_args returns for an invocation that requested
\* only known workers holds one entry per requested worker, in argument
\* order: the status of that worker, or its error.
C14_ReportHasEveryWorker ==
    (AfterInvocation /\ Range(workers) \subseteq OperationsEnum)
    => (/\ Len(result) = Len(workers)
        /\ \A i \in 1..Len(result) : result[i][1] \in {workers[i], "error"})

\* C15: an invocation that requests the url worker with no link is
\* rejected: no ingest pass runs and the report is the error, never the
\* success message.
C15_UrlWithoutLinkIsRejected ==
    (AfterInvocation /\ "url" \in Range(workers) /\ links = <<>>)
    => (passes = <<>> /\ result = ErrorReport)

RunPcs == {"ingest", "gather", "listing", "download", "load", "commit",
           "persist", "returned"}
NoStoreWrite == \A i \in 1..Len(calls) : calls[i] \notin StoreWrites

\* C16: the dispatch of a worker argument that is none of local, web, url
\* ends the invocation with the error report and starts no ingest; local
\* starts the LocalWorker ingest, web the WebWorker ingest, url the loop
\* whose every ingest is a UrlWorker ingest.
C16_UnknownKindIsError ==
    [][/\ (pc = "dispatch" /\ wi <= Len(workers)) =>
            CASE workers[wi] = "local" -> (pc' = "ingest" /\ kind' = "local")
              [] workers[wi] = "web" -> (pc' = "ingest" /\ kind' = "web")
              [] workers[wi] = "url" -> (pc' = "urlloop" /\ kind' = "none")
              [] OTHER -> /\ pc' = "idle"
                          /\ result' = ErrorReport
                          /\ kind' = "none"
                          /\ passes' = passes
                          /\ calls' = calls
                          /\ persisted' = persisted
       /\ (pc = "urlloop" /\ pc' = "ingest") => kind' = "url"
       /\ pc \in RunPcs => kind = workers[wi]]_vars

C16_Witness ==
    /\ AfterInvocation
    /\ workers = <<"local", "ftp">>
    /\ wi = 2
    /\ Len(passes) = 1
    /\ passes[1].outcome = "DONE"
    /\ result = ErrorReport

\* C17: a local run whose source directory does not exist ends with
\* FileNotFoundError straight from the gather step: no file is discovered
\* or parsed and the store gets no add, create or persist call.
C17_MissingSourceFailsFirst ==
    (cur.kind = "local" /\ ~srcDir.exists)
    => (/\ pc \in {"gather", "returned"}
        /\ pc = "returned" => outcome = "FileNotFoundError"
        /\ toLoad = {}
        /\ parsed = <<>>
        /\ NoStoreWrite
        /\ persisted = cur.before)

C17_Witness ==
    /\ pc = "returned"
    /\ cur.kind = "local"
    /\ cur.existed
    /\ ~srcDir.exists
    /\ outcome = "FileNotFoundError"

\* C18: a crawl run whose root is empty or whose path list is empty ends
\* with ValueError straight from the gather step: no scratch directory was
\* made, no page or file fetched, and the store gets no add, create or
\* persist call.
C18_IncompleteCrawlerFailsFirst ==
    (cur.kind = "web" /\ (crawler.root = "" \/ crawler.paths = <<>>))
    => (/\ pc \in {"gather", "returned"}
        /\ pc = "returned" => outcome = "ValueError"
        /\ tmpMade = {}
        /\ tmpDir = NoTmp
        /\ pathIdx = 0
        /\ tasks = <<>>
        /\ staged = {}
        /\ NoStoreWrite
        /\ persisted = cur.before)

C18_Witness ==
    /\ pc = "returned"
    /\ cur.kind = "web"
    /\ crawler.root # ""
    /\ crawler.paths = <<>>
    /\ outcome = "ValueError"

\* C19: the parse failure of one file ends the load and the run with
\* ValueError; the run makes no add, create or persist call, the error
\* ends the invocation, and the next run is a new process whose loader
\* starts with no document, so no chunk of the aborted batch reaches the
\* store.
C19_ParseErrorAbortsBatch ==
    [][/\ (\E j \in 1..Len(parsed') : ~parsed'[j].parses)
            => /\ pc' = "returned"
               /\ outcome' = "ValueError"
               /\ \A i \in 1..Len(calls') : calls'[i] \notin StoreWrites
               /\ persisted' = persisted
       /\ (pc = "returned" /\ outcome = "ValueError")
            => /\ pc' = "idle"
               /\ result' = ErrorReport
               /\ persisted' = persisted
       /\ (pc = "idle" /\ pc' # "idle") => documents' = <<>>]_vars

C19_Witness ==
    /\ pc = "returned"
    /\ outcome = "ValueError"
    /\ \E j \in 1..Len(parsed) : parsed[j].parses /\ parsed[j].chunks > 0
    /\ \E j \in 1..Len(parsed) : ~parsed[j].parses
    /\ SplitDocuments(documents) # <<>>
    /\ persisted = cur.before

Phase(p) ==
    CASE p = "ingest" -> 1
      [] p \in {"gather", "listing", "download"} -> 2
      [] p = "load" -> 3
      [] p \in {"commit", "persist"} -> 4
      [] p = "returned" -> 5
      [] OTHER -> 0

\* C20: a run goes through store check, gather, load and commit in this
\* order and never back: the exclusion set is read before anything is
\* staged, and no file is staged once a file has been parsed.
C20_PhasesInOrder ==
    [][(pc \in RunPcs /\ pc' \in RunPcs)
       => (/\ Phase(pc') >= Phase(pc)
           /\ (pc = "gather" /\ pc' # "returned")
                 => ignored' = IgnoredFiles(existed, db)
           /\ staged # {} => pc # "gather"
           /\ parsed # <<>> => staged' = staged)]_vars

\* C21: the status a local or web worker reports is its success message
\* exactly when its ingest ended DONE (add or create, then persist) and
\* its no-op message exactly when it ended NO_OP (no store write); the url
\* worker reports the success message only if the pass of every link
\* ended DONE.
C21_StatusReflectsOutcome ==
    /\ (pc = "returned" /\ outcome = "DONE")
          => (/\ Len(calls) >= 2
              /\ calls[Len(calls) - 1] \in CommitCalls
              /\ calls[Len(calls)] = "persist"
              /\ persisted = db)
    /\ (pc = "returned" /\ outcome = "NO_OP") => NoStoreWrite
    /\ \A i \in 1..Len(result) :
          /\ result[i][1] \in {"local", "web"}
                => \E k \in 1..Len(passes) :
                      /\ passes[k].wi = i
                      /\ passes[k].kind = result[i][1]
                      /\ (result[i][2] = (IF result[i][1] = "local" THEN MsgLocalOk ELSE MsgWebOk))
                            <=> (passes[k].outcome = "DONE")
                      /\ (result[i][2] = (IF result[i][1] = "local" THEN MsgLocalNone ELSE MsgWebNone))
                            <=> (passes[k].outcome = "NO_OP")
          /\ result[i][1] = "url"
                => /\ result[i][2] \in {MsgUrlOk, MsgUrlNone}
                   /\ result[i][2] = MsgUrlOk
                         => \A k \in 1..Len(passes) :
                               passes[k].wi = i => passes[k].outcome = "DONE"

C21_Witness ==
    /\ AfterInvocation
    /\ workers = <<"url">>
    /\ Len(passes) >= 2
    /\ passes[1].outcome = "NO_OP"
    /\ passes[2].outcome = "DONE"
    /\ result = <<<<"url", MsgUrlNone>>>>

\* C25: the files a load hands to the pool are the discovered files
\* without those of the exclusion set: no file whose path is in
\* ignored_files is waiting for a parse or has been parsed.
C25_ExcludedNeverParsed ==
    /\ pc = "load" => \A p \in toLoad : p \notin ignored
    /\ \A j \in 1..Len(parsed) : parsed[j].source \notin ignored

C25_Witness ==
    /\ pc = "load"
    /\ parsed # <<>>
    /\ \E p \in AllFiles(LoadDir, LoadFiles) : p \in ignored

\* C26: a submitted fetch task is unfinished only while its worker is in
\* the download step with the scratch directory in place: when _download
\* has returned or raised, when loading runs and when the directory is
\* removed, every submitted task has finished.
C26_DownloadJoinsEveryTask ==
    \A i \in 1..Len(tasks) :
       tasks[i].status = "pending" => (pc = "download" /\ tmpDir # NoTmp)

C26_Witness ==
    /\ pc = "returned"
    /\ outcome = "ValueError"
    /\ tmpDir = NoTmp
    /\ Len(tasks) = 2
    /\ tasks[1].status = "transport_error"
    /\ tasks[2].status = "ok"
    /\ tasks[2].file \in staged

\* C27: a crawl run that ends NO_OP has crawled every configured path: a
\* path that yields nothing new does not end the run.
C27_NoOpOnlyAfterEveryPath ==
    (pc = "returned" /\ cur.kind = "web" /\ outcome = "NO_OP")
    => pathIdx = Len(crawler.paths)

\* C28: in a crawl run every staged file is parsed once and its chunks
\* occur once in the chunks handed to the commit step.
C28_StagedFileParsedOnce ==
    cur.kind = "web"
    => (/\ \A i, j \in 1..Len(parsed) :
              parsed[i].source = parsed[j].source => i = j
        /\ pc \in {"commit", "persist"}
              => \A i, j \in 1..Len(texts) : texts[i] = texts[j] => i = j)

\* C29: whatever order the pool yields the files in, a load over a
\* directory has appended exactly one document, the file's own, for every
\* discovered non-excluded file the pool has yielded, and when the pool is
\* exhausted the chunks of the appended documents are the chunks of these
\* files.
C29_LoadCollectsOnePerFile ==
    (pc = "load" /\ (kind # "web" \/ pathIdx = 1))
    => LET F == FilteredFiles(LoadDir, LoadFiles, ignored)
           done == F \ toLoad
           base == Len(documents) - Len(parsed)
           new == (base + 1)..Len(documents)
       IN  /\ base >= 0
           /\ Len(parsed) = Cardinality(done)
           /\ \A f \in done : Cardinality({j \in new : documents[j].source = f}) = 1
           /\ \A j \in new :
                 /\ documents[j].source \in done
                 /\ documents[j] = Document(documents[j].source,
                                            LoadFiles[documents[j].source.name])
           /\ toLoad = {}
                 => Range(SplitDocuments(SubSeq(documents, base + 1, Len(documents))))
                    = UNION {{[source |-> f, idx |-> i] :
                                 i \in 1..LoadFiles[f.name].chunks} : f \in F}

C29_Witness ==
    /\ pc = "load"
    /\ toLoad = {}
    /\ Len(parsed) = 2
    /\ parsed[1].source.name = FileB
    /\ parsed[2].source.name = FileA
    /\ Len(documents) = 2

\* C30: the fetch tasks of one crawl path write different destination
\* files, and once a task has fetched its file the file holds that task's
\* content.
C30_TasksWriteOwnFiles ==
    (cur.kind = "web" /\ pc \in {"download", "load"})
    => \A i \in 1..Len(tasks) :
          /\ \A j \in 1..Len(tasks) : tasks[i].file = tasks[j].file => i = j
          /\ tasks[i].status = "ok" => tmpFiles[tasks[i].file] = tasks[i].content

\* s is an initial part of t
IsPrefix(s, t) == Len(s) <= Len(t) /\ SubSeq(t, 1, Len(s)) = s

\* C31: the coordinator never deletes store state. No step of any run takes a
\* record out of the persisted store: what was on disk stays, in place, and
\* new records only come after it. The store on disk, records and artifacts,
\* changes in one step only, the persist that ends a run DONE; so a run that
\* ended NO_OP or with an error has the store exactly as it found it.
C31_StoreNeverLosesRecords ==
    [][ /\ IsPrefix(persisted, persisted')
        /\ (persisted' # persisted \/ artifacts' # artifacts)
              => (pc = "persist" /\ pc' = "returned" /\ outcome' = "DONE")
        /\ (pc' = "returned" /\ pc # "returned" /\ cur'.invocation = invocation'
             /\ outcome' # "DONE")
              => (persisted' = cur'.before /\ artifacts' = artifacts) ]_vars

\* a run on a store that holds the records of two earlier runs, the second
\* of them appended to the first, ends in an error
C31_Witness ==
    /\ pc = "returned"
    /\ outcome \notin {"DONE", "NO_OP", "none"}
    /\ cur.existed
    /\ Len(calls) >= 2
    /\ prev.outcome = "DONE"
    /\ prev.existed
    /\ prev.before # <<>>
    /\ Len(persisted) > Len(prev.before)
    /\ persisted = cur.before

\* C32: when every submitted fetch task and parse task ends, the program is
\* back at the command line again and again: no run stays for ever in a
\* download step waiting for its tasks, in a load or anywhere else, and every
\* invocation that has started returns a status. A run is left only from its
\* end, where it has its outcome (DONE, NO_OP or an error), so every run that
\* has started reaches one.
C32_EveryRunEnds ==
    /\ [][(pc \in RunPcs /\ pc' \notin RunPcs)
            => (pc = "returned" /\ outcome # "none")]_vars
    /\ []<>(pc = "idle" /\ (invocation # "none" => result # <<>>))

\* the download step of a crawl waits at the join: one task has failed with
\* a transport error and another is still running
C32_Witness ==
    /\ pc = "download"
    /\ cur.kind = "web"
    /\ \E i, k \in 1..Len(tasks) :
          /\ tasks[i].status = "transport_error"
          /\ tasks[k].status = "pending"
====
